---- MODULE Spec2Model ----
(***************************************************************************)
(* Model of the SQL Server agent wiring: model selection (get_model), the  *)
(* token-refreshing Azure client (AutoRefreshAzureOpenAI), the POST /query *)
(* handler (execute_query) and the interactive CLI loop (main).            *)
(*                                                                         *)
(* Time is counted in minutes.  Strings the code transforms (lower(),      *)
(* strip()) are sequences of one-character strings.                        *)
(***************************************************************************)
EXTENDS Integers, Sequences, FiniteSets, TLC

\* ------------------------------------------------------------------ bounds
\* Last minute of the modelled clock.
MaxTime == 114
\* Last minute of the clock when two callers share the model: the first
\* staleness episode and the calls right after it.
MaxTimeConc == 58
\* Number of agent calls one run of the server makes.
MaxCalls == 3
\* Longest free-form line typed at the CLI prompt.
MaxLineLen == 2
\* Number of lines read at the CLI prompt.
MaxLines == 3

\* -------------------------------------------------------- program constants
\* timedelta(hours=1), in minutes.
Lifetime == 60
\* timedelta(minutes=5), in minutes.
Margin == 5
\* timeout=60 (seconds) of the token request, in minutes.
FetchTimeout == 1

\* ------------------------------------------------------------------ strings
UpperCase == << "A", "B", "C", "D", "E", "F", "G", "H", "I", "J", "K", "L", "M",
                "N", "O", "P", "Q", "R", "S", "T", "U", "V", "W", "X", "Y", "Z" >>
LowerCase == << "a", "b", "c", "d", "e", "f", "g", "h", "i", "j", "k", "l", "m",
                "n", "o", "p", "q", "r", "s", "t", "u", "v", "w", "x", "y", "z" >>
Whitespace == { " ", "\t" }

\* str.lower() on one character.
LowerChar(ch) ==
    IF \E i \in 1..Len(UpperCase) : UpperCase[i] = ch
    THEN LowerCase[CHOOSE i \in 1..Len(UpperCase) : UpperCase[i] = ch]
    ELSE ch

\* str.lower()
Lower(s) == [i \in 1..Len(s) |-> LowerChar(s[i])]

RECURSIVE LStrip(_)
LStrip(s) == IF s # <<>> /\ Head(s) \in Whitespace THEN LStrip(Tail(s)) ELSE s

RECURSIVE RStrip(_)
RStrip(s) ==
    IF s # <<>> /\ s[Len(s)] \in Whitespace
    THEN RStrip(SubSeq(s, 1, Len(s) - 1))
    ELSE s

\* str.strip()
Strip(s) == RStrip(LStrip(s))

S_openai == << "o", "p", "e", "n", "a", "i" >>
S_azure  == << "a", "z", "u", "r", "e" >>
S_exit   == << "e", "x", "i", "t" >>
S_quit   == << "q", "u", "i", "t" >>
S_q      == << "q" >>

\* -------------------------------------------------------------- environment
\* One environment variable: unset, or set to a string (possibly empty).
Unset == [set |-> FALSE, val |-> <<>>]
EnvSet(s) == [set |-> TRUE, val |-> s]

ProviderValues ==
    { Unset, EnvSet(<<>>), EnvSet(S_openai), EnvSet(<< "O", "p", "e", "n", "A", "I" >>),
      EnvSet(S_azure), EnvSet(<< "A", "Z", "U", "R", "E" >>),
      EnvSet(<< "g", "e", "m", "i", "n", "i" >>), EnvSet(<< "G", "e", "m", "i", "n", "i" >>) }
SecretValues == { Unset, EnvSet(<<>>), EnvSet(<< "k" >>) }

\* The environments considered: every provider value, with at most one of the
\* two providers' settings present.
Environments ==
    { e \in [ MODEL_PROVIDER : ProviderValues,
              OPENAI_API_KEY : SecretValues,
              AZURE_PROJECT_ID : SecretValues ] :
        e.OPENAI_API_KEY = Unset \/ e.AZURE_PROJECT_ID = Unset }

\* ------------------------------------------------------------------- values
Callers == { 1, 2 }

NoToken    == [id |-> 0, issued |-> 0, dummy |-> FALSE]
\* "dummy_token_for_compatibility"
DummyToken == [id |-> 0, issued |-> 0, dummy |-> TRUE]

NoError == [type |-> "none", text |-> "", value |-> <<>>]
ValueError(text, value) == [type |-> "ValueError", text |-> text, value |-> value]
\* response.raise_for_status() / transport errors of the token request.
HTTPStatusError == [type |-> "HTTPStatusError", text |-> "token request failed", value |-> <<>>]
\* Whatever the model or the database raises during a run.
RunError == [type |-> "RuntimeError", text |-> "query failed", value |-> <<>>]

NoModel == [kind |-> "none", azure_ad_token |-> NoToken, token_expiry |-> 0]

\* What sql_agent.run() can end in: a response object with a `content`
\* attribute, one without it, or an exception.
Returned(kind) ==
    [kind |-> kind, content |-> "3 tables", repr |-> "RunOutput()", err |-> NoError]
Raised(e) == [kind |-> "raise", content |-> "", repr |-> "", err |-> e]
NoOutcome == [kind |-> "none", content |-> "", repr |-> "", err |-> NoError]
RunOutcomes == { Returned("content"), Returned("plain"), Raised(RunError) }

\* A call's record: what it found on entry (stale, the expiry, the token, whose
\* refresh stamped the expiry, the last exchange before it), the exchanges it
\* made and the token it got, what it was forwarded with, and how it ended.
NoCall ==
    [ started |-> FALSE, stale |-> FALSE, expiry0 |-> 0, tok0 |-> NoToken,
      owner0 |-> 0, refresh0 |-> -1, nfetch |-> 0, fetched |-> NoToken,
      forwarded |-> FALSE, fwdT |-> 0, fwdTok |-> NoToken, fwdOwner |-> 0,
      outcome |-> NoOutcome ]

NoHttp == [status |-> 0, key |-> "", text |-> "", err |-> NoError]

VARIABLES
    env,            \* the process environment read by os.getenv
    clock,          \* datetime.now(), in minutes
    horizon,        \* the last minute the run covers
    startup,        \* "init" | "ready" | "failed": module-level agent creation
    error,          \* the exception that ended startup
    model,          \* the model client held by the agent
    callers,        \* the callers that may run the agent
    pc,             \* each caller's position inside invoke
    now,            \* each caller's local `now`
    call,           \* each caller's current call: what it saw and did
    http,           \* each caller's last HTTP response
    tokenCalls,     \* get_access_token invocations so far
    lateTokenCalls, \* those made after construction
    exchanges,      \* token requests sent to the token endpoint so far
    ncalls,         \* agent calls started so far
    lastTokWriter,  \* the caller that last assigned azure_ad_token (0: __init__)
    lastExpWriter,  \* the caller that last assigned token_expiry (0: __init__)
    expiryOwner,    \* id of the token whose refresh assigned token_expiry
    lastRefresh,    \* `now` of the call that last exchanged a token (-1: none)
    prevRefresh,    \* `now` of the exchange before that (-1: none)
    refreshFailed,  \* the last token request made by a refresh failed
    cliPc,          \* "prompt" | "done" | "eof" | "crashed"
    cliLine,        \* the line input() returned last
    cliVerdict,     \* what the loop did with it: "" | "exit" | "skip" | "forward"
    cliForwards,    \* print_response calls made for it
    cliLines        \* lines read so far

vars ==
    << env, clock, horizon, startup, error, model, callers, pc, now, call, http,
       tokenCalls, lateTokenCalls, exchanges, ncalls, lastTokWriter,
       lastExpWriter, expiryOwner, lastRefresh, prevRefresh, refreshFailed,
       cliPc, cliLine, cliVerdict, cliForwards, cliLines >>

cliVars == << cliPc, cliLine, cliVerdict, cliForwards, cliLines >>
ghostVars ==
    << lastTokWriter, lastExpWriter, expiryOwner, lastRefresh, prevRefresh, refreshFailed >>

\* os.getenv(name, default)
Getenv(name, default) == IF env[name].set THEN env[name].val ELSE default

\* `not value` for the result of os.getenv(name): None or the empty string.
Falsy(v) == ~v.set \/ v.val = <<>>

\* The provider compared as written, without lower().
ProviderAsWritten == Getenv("MODEL_PROVIDER", S_openai)

\* provider = os.getenv("MODEL_PROVIDER", "openai").lower()
Provider == Lower(Getenv("MODEL_PROVIDER", S_openai))

\* -------------------------------------------------------- credential provider
\* get_access_token() called at time t, the next token being number id: the
\* placeholder for a provider without token exchange; otherwise the request
\* takes up to the timeout, fails or yields a token issued while it ran.
get_access_token(t, id) ==
    IF Provider # S_azure
    THEN { [ok |-> TRUE, token |-> DummyToken, elapsed |-> 0, exchanged |-> FALSE] }
    ELSE { [ ok |-> x[1],
             token |-> IF x[1] THEN [id |-> id, issued |-> t + x[2], dummy |-> FALSE]
                               ELSE NoToken,
             elapsed |-> x[3],
             exchanged |-> TRUE ] :
           x \in { y \in BOOLEAN \X (0..FetchTimeout) \X (0..FetchTimeout) :
                      /\ y[2] <= y[3]
                      /\ t + y[3] <= horizon
                      /\ (~y[1] => y[2] = 0) } }

\* ------------------------------------------------------------ model selector
Supported == { S_openai, S_azure }

\* Every provider given the token-refreshing client.
ModelClassRefreshing(provider) == "AutoRefreshAzureOpenAI"

\* The class get_model builds for a supported provider.
ModelClass(provider) ==
    IF provider = S_azure THEN "AutoRefreshAzureOpenAI" ELSE "OpenAIChat"

\* The setting get_model requires for a supported provider.
RequiredSetting(provider) ==
    IF provider = S_openai THEN "OPENAI_API_KEY" ELSE "AZURE_PROJECT_ID"

MissingSetting(provider) ==
    IF provider = S_openai
    THEN ValueError("OPENAI_API_KEY is required when MODEL_PROVIDER=openai", <<>>)
    ELSE ValueError("AZURE_PROJECT_ID is required when MODEL_PROVIDER=azure", <<>>)

Unsupported(provider) ==
    ValueError("Unsupported MODEL_PROVIDER: {provider}. Supported: openai, azure", provider)

\* AutoRefreshAzureOpenAI.__init__: the expiry is stamped when the object is
\* built, after the token passed to it was fetched.
NewAzureModel(token, t) ==
    [kind |-> "AutoRefreshAzureOpenAI", azure_ad_token |-> token, token_expiry |-> t + Lifetime]

NewOpenAIModel == [kind |-> "OpenAIChat", azure_ad_token |-> NoToken, token_expiry |-> 0]

StartupFails(e) ==
    /\ startup' = "failed"
    /\ error' = e
    /\ UNCHANGED << model, clock, tokenCalls, exchanges, ghostVars >>

\* get_model(), run once when the agent is created at startup.
get_model ==
    /\ startup = "init"
    /\ UNCHANGED << env, horizon, callers, pc, now, call, http, lateTokenCalls, ncalls, cliVars >>
    /\ IF Provider \notin Supported
       THEN StartupFails(Unsupported(Provider))
       ELSE IF Falsy(env[RequiredSetting(Provider)])
       THEN StartupFails(MissingSetting(Provider))
       ELSE IF ModelClass(Provider) = "OpenAIChat"
       THEN /\ startup' = "ready"
            /\ model' = NewOpenAIModel
            /\ UNCHANGED << error, clock, tokenCalls, exchanges, ghostVars >>
       ELSE \E o \in get_access_token(clock, exchanges + 1) :
            /\ tokenCalls' = tokenCalls + 1
            /\ exchanges' = IF o.exchanged THEN exchanges + 1 ELSE exchanges
            /\ clock' = clock + o.elapsed
            /\ IF o.ok
               THEN /\ startup' = "ready"
                    /\ model' = NewAzureModel(o.token, clock')
                    /\ expiryOwner' = o.token.id
                    /\ lastRefresh' = IF o.exchanged THEN clock ELSE lastRefresh
                    /\ UNCHANGED << error, lastTokWriter, lastExpWriter, prevRefresh,
                                    refreshFailed >>
               ELSE /\ startup' = "failed"
                    /\ error' = HTTPStatusError
                    /\ UNCHANGED << model, ghostVars >>

\* -------------------------------------------------------------- agent manager
\* The staleness test without its margin.
NeedsRefreshNoMargin(t, expiry) == t >= expiry

\* The staleness test of _refresh_token_if_needed.
NeedsRefresh(t, expiry) == t >= expiry - Margin

\* A refresh that extends the expiry by the margin instead of the lifetime.
RefreshedExpiryByMargin(t) == t + Margin

\* The expiry a refresh records for a call whose `now` is t.
RefreshedExpiry(t) == t + Lifetime

\* A handler that reads response.content without the hasattr test: a result
\* without the attribute ends as an AttributeError, answered with 500.
QueryResponseNoHasattr(o) ==
    IF o.kind = "raise"
    THEN [status |-> 500, key |-> "detail", text |-> o.err.text, err |-> o.err]
    ELSE IF o.kind = "content"
    THEN [status |-> 200, key |-> "response", text |-> o.content, err |-> NoError]
    ELSE [ status |-> 500, key |-> "detail", text |-> "no attribute 'content'",
           err |-> [type |-> "AttributeError", text |-> "no attribute 'content'", value |-> <<>>] ]

\* The HTTP response execute_query makes of what the run ended in.
QueryResponse(o) ==
    IF o.kind = "raise"
    THEN [status |-> 500, key |-> "detail", text |-> o.err.text, err |-> o.err]
    ELSE [ status |-> 200, key |-> "response",
           text |-> IF o.kind = "content" THEN o.content ELSE o.repr,
           err |-> NoError ]

\* A caller enters invoke: `now = datetime.now()` and the staleness test.  A
\* client without refresh goes straight to the call.
refresh_check(c) ==
    /\ startup = "ready"
    /\ pc[c] = "idle"
    /\ ncalls < MaxCalls
    /\ ncalls' = ncalls + 1
    /\ now' = [now EXCEPT ![c] = clock]
    /\ http' = [http EXCEPT ![c] = NoHttp]
    /\ LET stale == /\ model.kind = "AutoRefreshAzureOpenAI"
                    /\ NeedsRefresh(clock, model.token_expiry)
       IN /\ call' = [call EXCEPT ![c] =
                         [NoCall EXCEPT !.started = TRUE,
                                        !.stale = stale,
                                        !.expiry0 = model.token_expiry,
                                        !.tok0 = model.azure_ad_token,
                                        !.owner0 = expiryOwner,
                                        !.refresh0 = lastRefresh]]
          /\ pc' = [pc EXCEPT ![c] = IF stale THEN "fetch" ELSE "forward"]
    /\ UNCHANGED << env, horizon, clock, startup, error, model, callers, tokenCalls,
                    lateTokenCalls, exchanges, ghostVars, cliVars >>

\* Line 58 run on the object m: the request, then the assignment of its
\* result; an exception leaves m as it is and ends the request with 500.
FetchStep(c, m) ==
    \E o \in get_access_token(clock, exchanges + 1) :
        /\ tokenCalls' = tokenCalls + 1
        /\ lateTokenCalls' = lateTokenCalls + 1
        /\ exchanges' = IF o.exchanged THEN exchanges + 1 ELSE exchanges
        /\ clock' = clock + o.elapsed
        /\ refreshFailed' = ~o.ok
        /\ IF o.ok
           THEN /\ model' = [m EXCEPT !.azure_ad_token = o.token]
                /\ call' = [call EXCEPT ![c].nfetch = @ + 1,
                                        ![c].fetched = o.token]
                /\ pc' = [pc EXCEPT ![c] = "stamp"]
                /\ lastTokWriter' = c
                /\ prevRefresh' = lastRefresh
                /\ lastRefresh' = now[c]
                /\ UNCHANGED << http, lastExpWriter, expiryOwner >>
           ELSE /\ model' = m
                /\ call' = [call EXCEPT ![c].nfetch = @ + 1,
                                        ![c].outcome = Raised(HTTPStatusError)]
                /\ pc' = [pc EXCEPT ![c] = "idle"]
                /\ http' = [http EXCEPT ![c] = QueryResponse(Raised(HTTPStatusError))]
                /\ UNCHANGED << lastTokWriter, lastExpWriter, expiryOwner,
                                lastRefresh, prevRefresh >>

\* A refresh that stamps the new expiry before it asks for the token.
refresh_fetch_stamp_first(c) ==
    /\ pc[c] = "fetch"
    /\ FetchStep(c, [model EXCEPT !.token_expiry = now[c] + Lifetime])
    /\ UNCHANGED << env, horizon, startup, error, callers, now, ncalls, cliVars >>

\* A refresh that looks at the expiry again and skips the exchange when
\* another caller has refreshed since this one's test.
refresh_fetch_single_flight(c) ==
    /\ pc[c] = "fetch"
    /\ IF model.token_expiry # call[c].expiry0
       THEN /\ pc' = [pc EXCEPT ![c] = "forward"]
            /\ UNCHANGED << model, call, http, clock, tokenCalls, lateTokenCalls,
                            exchanges, ghostVars >>
       ELSE FetchStep(c, model)
    /\ UNCHANGED << env, horizon, startup, error, callers, now, ncalls, cliVars >>

\* self.azure_ad_token = get_access_token()
refresh_fetch(c) ==
    /\ pc[c] = "fetch"
    /\ FetchStep(c, model)
    /\ UNCHANGED << env, horizon, startup, error, callers, now, ncalls, cliVars >>

\* self.token_expiry = now + timedelta(hours=1)
refresh_stamp(c) ==
    /\ pc[c] = "stamp"
    /\ model' = [model EXCEPT !.token_expiry = RefreshedExpiry(now[c])]
    /\ pc' = [pc EXCEPT ![c] = "forward"]
    /\ lastExpWriter' = c
    /\ expiryOwner' = call[c].fetched.id
    /\ UNCHANGED << env, horizon, clock, startup, error, callers, now, call, http,
                    tokenCalls, lateTokenCalls, exchanges, ncalls,
                    lastTokWriter, lastRefresh, prevRefresh, refreshFailed, cliVars >>

\* super().invoke(): the call goes out with the token the object holds, and
\* execute_query answers with what the run ended in.
invoke_forward(c) ==
    /\ pc[c] = "forward"
    /\ \E o \in RunOutcomes :
        /\ call' = [call EXCEPT ![c].forwarded = TRUE,
                                ![c].fwdT = clock,
                                ![c].fwdTok = model.azure_ad_token,
                                ![c].fwdOwner = expiryOwner,
                                ![c].outcome = o]
        /\ http' = [http EXCEPT ![c] = QueryResponse(o)]
    /\ pc' = [pc EXCEPT ![c] = "idle"]
    /\ UNCHANGED << env, horizon, clock, startup, error, model, callers, now,
                    tokenCalls, lateTokenCalls, exchanges, ncalls, ghostVars, cliVars >>

\* Time passes between requests; the finished requests are forgotten.
Tick ==
    /\ startup = "ready"
    /\ \A c \in callers : pc[c] = "idle"
    /\ \E t \in (clock + 1)..horizon : clock' = t
    /\ now' = [c \in Callers |-> 0]
    /\ call' = [c \in Callers |-> NoCall]
    /\ http' = [c \in Callers |-> NoHttp]
    /\ UNCHANGED << env, horizon, startup, error, model, callers, pc,
                    tokenCalls, lateTokenCalls, exchanges, ncalls, ghostVars, cliVars >>


\* ------------------------------------------------------------------- the CLI
Keywords == { S_exit, S_quit, S_q }

CliAlphabet == { "q", "Q", " ", "a" }

\* The lines typed at the prompt: short free-form lines, and the exit words
\* in several spellings.
Lines ==
    UNION { [1..n -> CliAlphabet] : n \in 0..MaxLineLen }
    \cup { S_exit, S_quit, << "E", "X", "I", "T" >>, << "Q", "u", "i", "t" >>,
           << " ", "e", "x", "i", "t" >>, << "e", "x", "i", "t", " " >>,
           << "\t" >>, << "e", "x", "i", "t", "s" >> }

\* What one pass of the loop does with the line input() returned.
Classify(query) ==
    IF Lower(query) \in Keywords THEN "exit"
    ELSE IF Strip(query) = <<>> THEN "skip"
    ELSE "forward"

\* One pass of `while True`: input(), the two tests, print_response.
main_loop ==
    /\ cliPc = "prompt"
    /\ cliLines < MaxLines
    /\ cliLines' = cliLines + 1
    /\ \E query \in Lines :
        /\ cliLine' = query
        /\ cliVerdict' = Classify(query)
        /\ IF Classify(query) = "exit"
           THEN cliPc' = "done" /\ cliForwards' = 0
           ELSE IF Classify(query) = "skip"
           THEN cliPc' = "prompt" /\ cliForwards' = 0
           ELSE /\ cliForwards' = 1
                /\ \E raised \in BOOLEAN :
                       cliPc' = IF raised THEN "crashed" ELSE "prompt"
    /\ UNCHANGED << env, horizon, clock, startup, error, model, callers, pc, now,
                    call, http, tokenCalls, lateTokenCalls, exchanges, ncalls,
                    ghostVars >>

\* input() at end of input: EOFError ends the program.
main_eof ==
    /\ cliPc = "prompt"
    /\ cliPc' = "eof"
    /\ cliLine' = <<>>
    /\ cliVerdict' = ""
    /\ cliForwards' = 0
    /\ UNCHANGED << env, horizon, clock, startup, error, model, callers, pc, now,
                    call, http, tokenCalls, lateTokenCalls, exchanges, ncalls,
                    ghostVars, cliLines >>

\* ------------------------------------------------------------- specification
InitWith(cs, envs, last, cli) ==
    /\ env \in envs
    /\ clock = 0
    /\ horizon = last
    /\ startup = "init"
    /\ error = NoError
    /\ model = NoModel
    /\ callers = cs
    /\ pc = [c \in Callers |-> "idle"]
    /\ now = [c \in Callers |-> 0]
    /\ call = [c \in Callers |-> NoCall]
    /\ http = [c \in Callers |-> NoHttp]
    /\ tokenCalls = 0
    /\ lateTokenCalls = 0
    /\ exchanges = 0
    /\ ncalls = 0
    /\ lastTokWriter = 0
    /\ lastExpWriter = 0
    /\ expiryOwner = 0
    /\ lastRefresh = -1
    /\ prevRefresh = -1
    /\ refreshFailed = FALSE
    /\ cliPc = cli
    /\ cliLine = <<>>
    /\ cliVerdict = ""
    /\ cliForwards = 0
    /\ cliLines = 0

\* One caller at a time: the CLI, or requests served one after another.
Init == InitWith({ 1 }, Environments, MaxTime, "off")

\* Two callers sharing the one token-refreshing model object.
InitConc ==
    InitWith(Callers, { e \in Environments : Lower(e.MODEL_PROVIDER.val) = S_azure },
             MaxTimeConc, "off")

Next ==
    \/ get_model
    \/ \E c \in callers : refresh_check(c)
    \/ \E c \in callers : refresh_fetch(c)
    \/ \E c \in callers : refresh_stamp(c)
    \/ \E c \in callers : invoke_forward(c)
    \/ Tick

Spec == Init /\ [][Next]_vars

SpecConc == InitConc /\ [][Next]_vars

\* The CLI alone, its agent already created.
InitCli ==
    InitWith({ 1 }, { e \in Environments : e.MODEL_PROVIDER = Unset /\ ~Falsy(e.OPENAI_API_KEY) },
             0, "prompt")

NextCli == main_loop \/ main_eof

SpecCli == InitCli /\ [][NextCli]_vars

\* =================================================================== claims
IsRefreshing == model.kind = "AutoRefreshAzureOpenAI"

\* C1: with the azure provider, whenever a call is forwarded at time t, t is
\* before the expiry of the token it carries (one hour after that token was
\* issued) minus the 5-minute margin.
C1_ForwardedBeforeMargin ==
    \A c \in callers :
        (IsRefreshing /\ call[c].forwarded)
            => call[c].fwdT < call[c].fwdTok.issued + Lifetime - Margin

\* C2: the staleness test is a threshold at expiry - margin: a call made one
\* time unit before it makes no token exchange and leaves the token and the
\* expiry as they were; a call made one time unit after it makes exactly one
\* token exchange before it is forwarded.
C2_Threshold ==
    \A c \in callers :
        (IsRefreshing /\ call[c].started) =>
            /\ now[c] = call[c].expiry0 - Margin - 1
                 => /\ call[c].nfetch = 0
                    /\ model.azure_ad_token = call[c].tok0
                    /\ model.token_expiry = call[c].expiry0
            /\ (now[c] = call[c].expiry0 - Margin + 1 /\ call[c].forwarded)
                 => /\ call[c].nfetch = 1
                    /\ call[c].fwdTok = call[c].fetched
                    /\ call[c].fwdTok # call[c].tok0

\* A call made one time unit past the threshold has been forwarded after its
\* exchange.
C2_Witness ==
    \E c \in callers :
        /\ IsRefreshing
        /\ call[c].forwarded
        /\ now[c] = call[c].expiry0 - Margin + 1
        /\ call[c].nfetch = 1

\* C3: with the openai provider get_access_token is invoked at most once, never
\* after construction, no token is exchanged, and no call finds the
\* credential stale.
C3_OpenAINoRefresh ==
    Lower(Getenv("MODEL_PROVIDER", S_openai)) = S_openai =>
        /\ tokenCalls <= 1
        /\ lateTokenCalls = 0
        /\ exchanges = 0
        /\ \A c \in callers : pc[c] \notin { "fetch", "stamp" } /\ ~call[c].stale

\* An openai call forwarded more than a token lifetime after construction.
C3_Witness ==
    /\ Lower(Getenv("MODEL_PROVIDER", S_openai)) = S_openai
    /\ \E c \in callers : call[c].forwarded /\ call[c].fwdT > Lifetime
    /\ ncalls > 1

SettingAbsent(v) == ~v.set \/ v.val = <<>>

ConfigErrorNaming(value) ==
    /\ startup = "failed"
    /\ error.type = "ValueError"
    /\ error.text = "Unsupported MODEL_PROVIDER: {provider}. Supported: openai, azure"
    /\ error.value = value
    /\ model = NoModel
    /\ exchanges = 0

\* C4 as stated: every MODEL_PROVIDER value other than openai and azure fails
\* model selection with a configuration error naming the value and the
\* supported set, nothing built and no token exchanged; openai fails with
\* one iff the API key is absent, azure iff the project identifier is absent.
C4_Original ==
    (startup # "init" /\ env.MODEL_PROVIDER.set) =>
        LET v == env.MODEL_PROVIDER.val IN
        /\ v \notin { S_openai, S_azure } => ConfigErrorNaming(v)
        /\ v = S_openai => (startup = "failed" <=> SettingAbsent(env.OPENAI_API_KEY))
        /\ v = S_azure => (error.type = "ValueError" <=> SettingAbsent(env.AZURE_PROJECT_ID))

\* C4 as amended: the provider is compared in lower case (openai when unset).
\* A value whose lower-cased form is neither openai nor azure fails with a
\* configuration error naming the lower-cased value and the supported set,
\* nothing built and no token exchanged; openai fails iff the API key is
\* unset or empty; azure fails with a configuration error iff the project
\* identifier is unset or empty, and otherwise only if the token exchange fails.
C4_Amended ==
    startup # "init" =>
        LET p == Lower(Getenv("MODEL_PROVIDER", S_openai)) IN
        /\ p \notin { S_openai, S_azure } => ConfigErrorNaming(p) /\ tokenCalls = 0
        /\ p = S_openai =>
             /\ startup = "failed" <=> SettingAbsent(env.OPENAI_API_KEY)
             /\ startup = "failed" => error.type = "ValueError" /\ model = NoModel
             /\ exchanges = 0
        /\ p = S_azure =>
             /\ error.type = "ValueError" <=> SettingAbsent(env.AZURE_PROJECT_ID)
             /\ error.type = "ValueError" => model = NoModel /\ exchanges = 0
             /\ startup = "failed" <=> error.type \in { "ValueError", "HTTPStatusError" }
             /\ error.type = "HTTPStatusError" => model = NoModel /\ exchanges = 1

\* A mixed-case unsupported value has been rejected.
C4_Witness ==
    /\ startup = "failed"
    /\ env.MODEL_PROVIDER.set
    /\ env.MODEL_PROVIDER.val # Lower(env.MODEL_PROVIDER.val)
    /\ Lower(env.MODEL_PROVIDER.val) \notin { S_openai, S_azure }

\* C5: every request ends in exactly one of two ways: 200 with the run's text
\* under `response` when the run returned, 500 with the exception's message
\* under `detail` when the run, or a token refresh it triggered, raised.
C5_TwoOutcomes ==
    \A c \in callers :
        (call[c].started /\ pc[c] = "idle") =>
            LET o == call[c].outcome IN
            /\ o.kind \in { "content", "plain", "raise" }
            /\ o.kind = "content" =>
                 http[c] = [status |-> 200, key |-> "response", text |-> o.content, err |-> NoError]
            /\ o.kind = "plain" =>
                 http[c] = [status |-> 200, key |-> "response", text |-> o.repr, err |-> NoError]
            /\ o.kind = "raise" =>
                 http[c] = [status |-> 500, key |-> "detail", text |-> o.err.text, err |-> o.err]

\* A request whose token refresh failed has been answered with 500.
C5_Witness ==
    \E c \in callers :
        /\ call[c].started
        /\ pc[c] = "idle"
        /\ call[c].outcome = Raised(HTTPStatusError)
        /\ http[c].status = 500

\* C6: each line is classified after stripping: an exit word in any case ends
\* the loop unforwarded, a blank line is skipped, every other line is forwarded
\* exactly once; the loop ends only on an exit word, at end of input or with
\* the program.
C6_Classification ==
    /\ cliVerdict # "" =>
         LET stripped == Strip(cliLine) IN
         IF Lower(stripped) \in { S_exit, S_quit, S_q }
         THEN cliPc = "done" /\ cliForwards = 0
         ELSE IF stripped = <<>>
         THEN cliPc = "prompt" /\ cliForwards = 0
         ELSE cliForwards = 1
    /\ cliPc = "done" => Lower(Strip(cliLine)) \in { S_exit, S_quit, S_q }
    /\ cliPc \in { "prompt", "done", "eof", "crashed" }

\* C7: when the token request of a refresh fails, the call fails with that
\* error and is not forwarded, the token and the expiry stay as they were,
\* and until a request succeeds every later call is stale again and asks
\* again instead of being forwarded with the old token.
C7_FailedRefresh ==
    /\ \A c \in callers :
         (call[c].started /\ call[c].outcome = Raised(HTTPStatusError)) =>
            /\ ~call[c].forwarded
            /\ pc[c] = "idle"
            /\ http[c].status = 500
            /\ http[c].err = HTTPStatusError
            /\ model.azure_ad_token = call[c].tok0
            /\ model.token_expiry = call[c].expiry0
    /\ refreshFailed =>
         /\ clock >= model.token_expiry - Margin
         /\ \A c \in callers :
              /\ pc[c] \notin { "stamp", "forward" }
              /\ (call[c].started /\ pc[c] = "idle") => ~call[c].forwarded

\* A call asks again after an earlier call's token request failed.
C7_Witness ==
    /\ refreshFailed
    /\ exchanges > 2
    /\ \E c \in callers : pc[c] = "idle" /\ call[c].outcome = Raised(HTTPStatusError)

\* C8: no caller observes the token paired with the expiry of another
\* credential, neither when it enters nor when it is forwarded.
C8_NoHalfUpdate ==
    \A c \in callers :
        (IsRefreshing /\ call[c].started) =>
            /\ call[c].tok0.id = call[c].owner0
            /\ call[c].forwarded => call[c].fwdTok.id = call[c].fwdOwner

BothRefreshed ==
    /\ \A c \in Callers : pc[c] = "idle" /\ call[c].forwarded /\ call[c].stale
    /\ call[1].expiry0 = call[2].expiry0

\* C9: nothing keeps two callers from refreshing at once.  Every caller that
\* found the credential stale makes its own token exchange, also when another
\* caller refreshed in the meantime, and once both are through the object
\* holds the token of whichever assigned it last and the expiry of whichever
\* stamped it last.
C9_RacingRefreshes ==
    /\ \A c \in callers :
         (call[c].stale /\ (pc[c] \in { "stamp", "forward" } \/ call[c].forwarded))
            => call[c].nfetch = 1 /\ call[c].fetched.id > 0
    /\ BothRefreshed =>
         /\ model.azure_ad_token = call[lastTokWriter].fetched
         /\ model.token_expiry = now[lastExpWriter] + Lifetime

\* Both callers found the same expiry stale, each exchanged a token, and the
\* token one of them assigned is paired with the expiry the other stamped.
C9_Witness ==
    /\ BothRefreshed
    /\ call[1].fetched.id # call[2].fetched.id
    /\ lastTokWriter # lastExpWriter

C10_State ==
    /\ \A c \in callers :
         (IsRefreshing /\ call[c].started) =>
            /\ (call[c].stale /\ (pc[c] = "forward" \/ call[c].forwarded))
                 => model.token_expiry = now[c] + Lifetime
            /\ (call[c].refresh0 >= 0 /\ now[c] < call[c].refresh0 + Lifetime - Margin)
                 => ~call[c].stale /\ call[c].nfetch = 0
    /\ prevRefresh >= 0 => lastRefresh - prevRefresh >= Lifetime - Margin

C10_Step ==
    (IsRefreshing /\ model'.kind = "AutoRefreshAzureOpenAI")
        => model'.token_expiry >= model.token_expiry

====
